---------------------------- MODULE Spec2Model ----------------------------
(***************************************************************************)
(* A model of lxdev: RemoteClient (src/lxdev/client.py) and the standalone *)
(* command line (src/lxdev/standalone_cli.py).                             *)
(*                                                                         *)
(* Text is modelled by TLA+ strings, so that Python's substring test,      *)
(* str.strip, str.split and readlines are computed character by character. *)
(* A call of a method is one action: it draws what the environment answers *)
(* (the remote reply, the transfer tool's run, the container listing) and  *)
(* leaves the outcome of the call in the variable last; the caller then    *)
(* takes the outcome (action Return) before it makes its next call.        *)
(***************************************************************************)
EXTENDS Integers, Sequences, FiniteSets, TLC

VARIABLES
    client,     \* self.client: "None", "unconnected", "connected", "closed"
    scope,      \* the caller's position: "outside" or "inside" the with block
    pending,    \* the exception leaving the with body, "none" if there is none
    scopes,     \* with blocks entered so far
    closes,     \* close() calls made for the with block entered last
    prior,      \* "clean" when the call before this one was a clean that returned
    last        \* the outcome of the call just made, NoCall after Return

vars == <<client, scope, pending, scopes, closes, prior, last>>

----------------------------------------------------------------------------
(* Bounds of the model *)

MaxErrLines == 2    \* lines on a remote command's error stream
MaxOutLines == 2    \* lines on a remote command's output stream
MaxCmds == 2        \* commands in a list given to execute_commands
MaxScopes == 2      \* with blocks the caller opens on one client
MaxListing == 2     \* entries in the container listing
MaxTransferLines == 2   \* lines the transfer tool prints

----------------------------------------------------------------------------
(* Python text operations *)

\* `sub in s`
Contains(sub, s) ==
    \E i \in 1..(Len(s) - Len(sub) + 1) : SubSeq(s, i, i + Len(sub) - 1) = sub

RECURSIVE LStripNewline(_)
LStripNewline(s) ==
    IF Len(s) > 0 /\ SubSeq(s, 1, 1) = "\n"
    THEN LStripNewline(SubSeq(s, 2, Len(s)))
    ELSE s

RECURSIVE RStripNewline(_)
RStripNewline(s) ==
    IF Len(s) > 0 /\ SubSeq(s, Len(s), Len(s)) = "\n"
    THEN RStripNewline(SubSeq(s, 1, Len(s) - 1))
    ELSE s

\* s.strip("\n")
StripNewline(s) == RStripNewline(LStripNewline(s))

\* stream.readlines(): the lines of the text, each with its terminator
RECURSIVE ReadLinesFrom(_, _, _)
ReadLinesFrom(text, i, start) ==
    IF i > Len(text)
    THEN IF start > Len(text) THEN <<>> ELSE <<SubSeq(text, start, Len(text))>>
    ELSE IF SubSeq(text, i, i) = "\n"
         THEN <<SubSeq(text, start, i)>> \o ReadLinesFrom(text, i + 1, i + 1)
         ELSE ReadLinesFrom(text, i + 1, start)

ReadLines(text) == ReadLinesFrom(text, 1, 1)

\* text.split("\n"): the pieces between the newlines, at least one piece
RECURSIVE SplitFrom(_, _, _)
SplitFrom(text, i, start) ==
    IF i > Len(text)
    THEN <<SubSeq(text, start, Len(text))>>
    ELSE IF SubSeq(text, i, i) = "\n"
         THEN <<SubSeq(text, start, i - 1)>> \o SplitFrom(text, i + 1, i + 1)
         ELSE SplitFrom(text, i + 1, start)

SplitNewline(text) == SplitFrom(text, 1, 1)

\* what a process that writes these lines puts on its stream
RECURSIVE Unlines(_)
Unlines(lines) ==
    IF lines = <<>> THEN "" ELSE Head(lines) \o "\n" \o Unlines(Tail(lines))

Range(f) == {f[i] : i \in DOMAIN f}

SeqsUpTo(S, n) == UNION {[1..k -> S] : k \in 0..n}

----------------------------------------------------------------------------
(* The remote target and what the environment may answer *)

Targets ==
    { [host |-> "lxd_mydev", lxd_container_name |-> "mydev", user |-> "ubuntu"] }

target == CHOOSE t \in Targets : TRUE

\* the RemoteClient object: the fields set by __init__ and self.client
Self(cl) ==
    [host |-> target.host, lxd_container_name |-> target.lxd_container_name,
     user |-> target.user, client |-> cl]

ErrLines == {"WARNING: x", "Latexmk: Run number 2", "warning: y", "fatal", ""}
OutLines == {"a", "b"}
CmdStrings == {"ls", "make"}

\* the argument `commands`: a str, a list of str, or something else
CommandArgs ==
    {[type |-> "str", val |-> c] : c \in CmdStrings}
        \cup {[type |-> "list", val |-> l] : l \in SeqsUpTo(CmdStrings, MaxCmds)}
        \cup {[type |-> "tuple", val |-> <<"ls">>]}

\* What the session answers to one exec_command: the call itself raises, or
\* the command runs and leaves an error stream and an output stream, either
\* of which may hold bytes that do not decode.
Replies ==
    {[fault |-> "exec_raises"], [fault |-> "stderr_undecodable"]}
        \cup {[fault |-> "stdout_undecodable", err |-> e] :
                  e \in SeqsUpTo(ErrLines, MaxErrLines)}
        \cup {[fault |-> "none", err |-> e, out |-> o] :
                  e \in SeqsUpTo(ErrLines, MaxErrLines),
                  o \in SeqsUpTo(OutLines, MaxOutLines)}

Log(level, msg) == [level |-> level, msg |-> msg]

----------------------------------------------------------------------------
(* RemoteClient.execute_commands *)

\* the loop of lines 161-165
RECURSIVE JoinCommandsMutantSequenced(_)
JoinCommandsMutantSequenced(cmds) ==
    IF cmds = <<>> THEN ""
    ELSE IF Len(cmds) = 1 THEN cmds[1]
    ELSE JoinCommandsMutantSequenced(SubSeq(cmds, 1, Len(cmds) - 1)) \o " ; " \o cmds[Len(cmds)]

RECURSIVE JoinCommands(_)
JoinCommands(cmds) ==
    IF cmds = <<>> THEN ""
    ELSE IF Len(cmds) = 1 THEN cmds[1]
    ELSE JoinCommands(SubSeq(cmds, 1, Len(cmds) - 1)) \o " && " \o cmds[Len(cmds)]

\* lines 157-165: combined_cmd, unbound when commands is neither str nor list
CombinedCmd(commands) ==
    CASE commands.type = "str" -> [bound |-> TRUE, cmd |-> commands.val]
      [] commands.type = "list" -> [bound |-> TRUE, cmd |-> JoinCommands(commands.val)]
      [] OTHER -> [bound |-> FALSE, cmd |-> ""]

\* line 178: the markers that make an error-stream line informational
IsBenignMutantWarningOnly(error_line) == Contains("WARNING", error_line)

IsBenign(error_line) ==
    Contains("WARNING", error_line) \/ Contains("Latexmk: Run number", error_line)

\* lines 177-188: one turn of the loop over stderr.readlines()
ScanErrorLineMutantNoAppend(acc, raw) ==
    LET error_line == StripNewline(raw) IN
    IF IsBenign(error_line)
    THEN [success |-> acc.success,
          log |-> Append(acc.log, Log("info", error_line)),
          error_lines |-> Append(acc.error_lines, error_line)]
    ELSE [success |-> FALSE,
          log |-> Append(acc.log, Log("error", error_line)),
          error_lines |-> acc.error_lines]

ScanErrorLine(acc, raw) ==
    LET error_line == StripNewline(raw) IN
    IF IsBenign(error_line)
    THEN [success |-> acc.success,
          log |-> Append(acc.log, Log("info", error_line)),
          error_lines |-> Append(acc.error_lines, error_line)]
    ELSE [success |-> FALSE,
          log |-> Append(acc.log, Log("error", error_line)),
          error_lines |-> Append(acc.error_lines, error_line)]

\* lines 174-188
RECURSIVE ScanErrorLines(_, _)
ScanErrorLines(acc, raws) ==
    IF raws = <<>> THEN acc
    ELSE ScanErrorLines(ScanErrorLine(acc, Head(raws)), Tail(raws))

\* lines 190-200: the output stream, line by line; a failure to decode is
\* raised by readlines() before the first turn of the loop, caught and logged
ReadResultMutantNoStrip(combined_cmd, reply) ==
    IF reply.fault = "stdout_undecodable"
    THEN [result_lines |-> <<>>,
          log |-> <<Log("error", "INPUT: " \o combined_cmd),
                    Log("error", "Failed to read from stdout.readlines() , probably due to non-utf8 encoding")>>]
    ELSE LET raws == ReadLines(Unlines(reply.out)) IN
         [result_lines |-> raws,
          log |-> [i \in 1..(2 * Len(raws)) |->
                      IF i % 2 = 1 THEN Log("trace", "INPUT: " \o combined_cmd)
                      ELSE Log("info", raws[i \div 2])]]

ReadResultMutantSilent(combined_cmd, reply) ==
    IF reply.fault = "stdout_undecodable"
    THEN [result_lines |-> <<>>, log |-> <<>>]
    ELSE LET raws == ReadLines(Unlines(reply.out)) IN
         [result_lines |-> [i \in 1..Len(raws) |-> StripNewline(raws[i])],
          log |-> [i \in 1..(2 * Len(raws)) |->
                      IF i % 2 = 1 THEN Log("trace", "INPUT: " \o combined_cmd)
                      ELSE Log("info", StripNewline(raws[i \div 2]))]]

ReadResult(combined_cmd, reply) ==
    IF reply.fault = "stdout_undecodable"
    THEN [result_lines |-> <<>>,
          log |-> <<Log("error", "INPUT: " \o combined_cmd),
                    Log("error", "Failed to read from stdout.readlines() , probably due to non-utf8 encoding")>>]
    ELSE LET raws == ReadLines(Unlines(reply.out)) IN
         [result_lines |-> [i \in 1..Len(raws) |-> StripNewline(raws[i])],
          log |-> [i \in 1..(2 * Len(raws)) |->
                      IF i % 2 = 1 THEN Log("trace", "INPUT: " \o combined_cmd)
                      ELSE Log("info", StripNewline(raws[i \div 2]))]]

Raised(exc, log, fx) ==
    [outcome |-> "raised", exc |-> exc, log |-> log, fx |-> fx]

\* lines 202-206: the end of execute_commands; the raise of line 203 is a
\* comment, so the branch does nothing and the result lines are returned
ExecFinishMutantRaises(scan, res, ignore_failures, log, fx) ==
    IF ~ignore_failures /\ ~scan.success
    THEN Raised("myRemoteException", log \o scan.log \o res.log, fx)
    ELSE [outcome |-> "returned", value |-> res.result_lines, success |-> scan.success,
          error_lines |-> scan.error_lines, log |-> log \o scan.log \o res.log, fx |-> fx]

ExecFinish(scan, res, ignore_failures, log, fx) ==
    [outcome |-> "returned", value |-> res.result_lines, success |-> scan.success,
     error_lines |-> scan.error_lines, log |-> log \o scan.log \o res.log, fx |-> fx]

\* lines 149-206
execute_commands(self, commands, ignore_failures, reply) ==
    LET cc == CombinedCmd(commands)
        shown == Log("info", "<green>" \o self.user \o "@" \o self.host
                                 \o " $ " \o cc.cmd \o "</green>")
    IN
    IF ~cc.bound THEN Raised("UnboundLocalError", <<>>, <<>>)
    ELSE IF self.client # "connected" THEN Raised("AttributeError", <<shown>>, <<>>)
    ELSE IF reply.fault = "exec_raises" THEN Raised("SSHException", <<shown>>, <<>>)
    ELSE IF reply.fault = "stderr_undecodable"
         THEN Raised("UnicodeDecodeError", <<shown>>,
                     <<[kind |-> "exec_command", cmd |-> cc.cmd],
                       [kind |-> "recv_exit_status"]>>)
    ELSE LET scan == ScanErrorLines([success |-> TRUE, log |-> <<>>, error_lines |-> <<>>],
                                    ReadLines(Unlines(reply.err)))
             res == ReadResult(cc.cmd, reply)
         IN ExecFinish(scan, res, ignore_failures, <<shown>>,
                       <<[kind |-> "exec_command", cmd |-> cc.cmd],
                         [kind |-> "recv_exit_status"],
                         [kind |-> "recv_exit_status"]>>)

----------------------------------------------------------------------------
(* ensure_container_is_on *)

ContainerNames == {"mydev", "mydev2", "web"}
ContainerStates == {"RUNNING", "STOPPED"}
Entries == [name : ContainerNames, state : ContainerStates]

\* a row of the table `lxc list` prints
RenderEntry(e) == "| " \o e.name \o " | " \o e.state \o " |"

\* What running `lxc list` gives: the tool is missing, it exits with a
\* non-zero status, or it prints one row for each entry.
LxcRuns ==
    {[fault |-> "not_found"], [fault |-> "nonzero"]}
        \cup {[fault |-> "none", entries |-> es] : es \in SeqsUpTo(Entries, MaxListing)}

SettleCount == 5

\* line 20: the test that decides whether a line of the listing is a
\* stopped entry of the container
IsStoppedLine(container_name, response_line) ==
    Contains(container_name, response_line) /\ Contains("STOPPED", response_line)

\* lines 19-23: the loop over the lines of the listing
RECURSIVE StartStopped(_, _, _)
StartStopped(container_name, acc, response_lines) ==
    IF response_lines = <<>> THEN acc
    ELSE StartStopped(container_name,
            IF IsStoppedLine(container_name, Head(response_lines))
            THEN [any_started |-> TRUE,
                  log |-> Append(acc.log, Log("info", container_name \o " was off, starting up")),
                  fx |-> Append(acc.fx, [kind |-> "lxc_start", name |-> container_name])]
            ELSE acc,
            Tail(response_lines))

\* lines 24-29: the settle wait
SettleMutantAlways(any_started) ==
    [log |-> <<Log("info", "waiting...")>>
                \o [i \in 1..SettleCount |-> Log("info", ToString(SettleCount - (i - 1)))],
     fx |-> [i \in 1..SettleCount |-> [kind |-> "sleep"]]]

Settle(any_started) ==
    IF any_started
    THEN [log |-> <<Log("info", "waiting...")>>
                    \o [i \in 1..SettleCount |-> Log("info", ToString(SettleCount - (i - 1)))],
          fx |-> [i \in 1..SettleCount |-> [kind |-> "sleep"]]]
    ELSE [log |-> <<>>, fx |-> <<>>]

\* lines 16-29
ensure_container_is_on(container_name, lxc) ==
    IF lxc.fault = "not_found" THEN Raised("FileNotFoundError", <<>>, <<>>)
    ELSE IF lxc.fault = "nonzero"
         THEN Raised("CalledProcessError", <<>>, <<[kind |-> "lxc_list"]>>)
    ELSE LET text == Unlines([i \in 1..Len(lxc.entries) |-> RenderEntry(lxc.entries[i])])
             loop == StartStopped(container_name,
                        [any_started |-> FALSE, log |-> <<>>, fx |-> <<[kind |-> "lxc_list"]>>],
                        SplitNewline(text))
             wait == Settle(loop.any_started)
         IN [outcome |-> "returned", log |-> loop.log \o wait.log, fx |-> loop.fx \o wait.fx]

----------------------------------------------------------------------------
(* RemoteClient.__enter__ and RemoteClient.__exit__ *)

NoConfig == [k \in {} |-> ""]

\* what ssh_config.lookup(host) gives: nothing for the host, a direct
\* override, or a proxy command
SshConfigs ==
    { NoConfig,
      [k \in {"hostname", "port"} |-> IF k = "hostname" THEN "10.0.0.5" ELSE "2222"],
      [k \in {"proxycommand"} |-> "lxc exec mydev -- nc localhost 22"] }

\* how client.connect(**cfg) ends
ConnectOutcomes == {"ok", "AuthenticationException", "NoValidConnectionsError", "SSHException"}

\* lines 59, 70-76: the connection parameters
ConnectCfg(self, user_config) ==
    LET base == [k \in {"hostname", "username"} |->
                    IF k = "hostname" THEN self.host ELSE self.user]
        keys == {"hostname", "username"}
                    \cup ({"hostname", "username", "port"} \cap DOMAIN user_config)
    IN [k \in keys |-> IF k \in DOMAIN user_config THEN user_config[k] ELSE base[k]]

\* lines 81-91: the message logged for an exception that leaves the try block
EnterErrorLog(exc) ==
    CASE exc \in {"AuthenticationException", "BadAuthenticationType", "PartialAuthentication"} ->
            Log("error", "AuthenticationException occurred; did you remember to generate an SSH key? " \o exc)
      [] exc = "NoValidConnectionsError" ->
            Log("error", "NoValidConnectionsError occurred, host is unreachable. Is the server on?: " \o exc)
      [] OTHER -> Log("error", "Unexpected error occurred: " \o exc)

\* lines 54-78: what __enter__ does outside the process once the container
\* is known to be on, after what ensure_container_is_on did
EnterEffectsMutantConnectFirst(warm_fx, proxy, cfg) ==
    <<[kind |-> "SSHClient"]>> \o proxy
        \o <<[kind |-> "connect", cfg |-> cfg, sock |-> proxy # <<>>]>> \o warm_fx

EnterEffects(warm_fx, proxy, cfg) ==
    warm_fx \o <<[kind |-> "SSHClient"]>> \o proxy
        \o <<[kind |-> "connect", cfg |-> cfg, sock |-> proxy # <<>>]>>

\* lines 51-91; the result names self.client after the call
__enter__(self, lxc, user_config, conn) ==
    LET warm == ensure_container_is_on(self.lxd_container_name, lxc) IN
    IF warm.outcome = "raised"
    THEN [outcome |-> "raised", exc |-> warm.exc, client |-> self.client,
          log |-> Append(warm.log, EnterErrorLog(warm.exc)), fx |-> warm.fx]
    ELSE LET proxy == IF "proxycommand" \in DOMAIN user_config
                      THEN <<[kind |-> "ProxyCommand", cmd |-> user_config["proxycommand"]]>>
                      ELSE <<>>
             fx == EnterEffects(warm.fx, proxy, ConnectCfg(self, user_config))
         IN IF conn = "ok"
            THEN [outcome |-> "returned", client |-> "connected", log |-> warm.log, fx |-> fx]
            ELSE [outcome |-> "raised", exc |-> conn, client |-> "unconnected",
                  log |-> Append(warm.log, EnterErrorLog(conn)), fx |-> fx]

\* lines 93-95.  exc is the exception leaving the with body, "none" if the
\* body ended normally; the method returns None, so the exception goes on.
__exit__MutantSkipOnError(self, exc) ==
    IF exc = "none"
    THEN [client |-> "closed", closed |-> 1, suppress |-> FALSE]
    ELSE [client |-> self.client, closed |-> 0, suppress |-> FALSE]

__exit__(self, exc) ==
    [client |-> "closed", closed |-> 1, suppress |-> FALSE]

----------------------------------------------------------------------------
(* RemoteClient.rsync *)

Directions == {"local_to_remote", "remote_to_local", "sideways"}
TransferLines == {"sent 9 bytes", "rsync error: code 23", "open failed", "error: x"}
FakeSsh == "/tmp/tmpq"
RelLocalDir == "content"
RelRemoteDir == "invalid_dir"

\* what running the transfer tool gives
TransferRuns ==
    {[fault |-> "not_found"], [fault |-> "undecodable"]}
        \cup {[fault |-> f, out |-> o] :
                  f \in {"none", "nonzero"}, o \in SeqsUpTo(TransferLines, MaxTransferLines)}

\* what the session answers to the directory-creation commands of a push
MkdirReplies ==
    { [fault |-> "exec_raises"],
      [fault |-> "none", err |-> <<>>, out |-> <<>>],
      [fault |-> "none", err |-> <<"mkdir: cannot create directory">>, out |-> <<>>] }

\* line 134: the markers of a failed transfer
IsRsyncFailureMutantErrorOnly(response_line) == Contains("rsync error", response_line)

IsRsyncFailure(response_line) ==
    Contains("rsync error", response_line) \/ Contains("failed", response_line)

\* lines 133-138: one turn of the loop over the lines of the tool's output
ScanTransferLineMutantFlagsAll(acc, response_line) ==
    IF Contains("rsync error", response_line) \/ Contains("failed", response_line)
    THEN [success |-> FALSE,
          log |-> Append(acc.log, Log("error", "rsync failed: " \o response_line))]
    ELSE [success |-> FALSE,
          log |-> Append(acc.log, Log("info", "<light-blue>" \o response_line \o "</light-blue>"))]

ScanTransferLine(acc, response_line) ==
    IF IsRsyncFailure(response_line)
    THEN [success |-> FALSE,
          log |-> Append(acc.log, Log("error", "rsync failed: " \o response_line))]
    ELSE [success |-> acc.success,
          log |-> Append(acc.log, Log("info", "<light-blue>" \o response_line \o "</light-blue>"))]

RECURSIVE ScanTransferLines(_, _)
ScanTransferLines(acc, response_lines) ==
    IF response_lines = <<>> THEN acc
    ELSE ScanTransferLines(ScanTransferLine(acc, Head(response_lines)), Tail(response_lines))

\* lines 125 and 129: the command line of the transfer
RsyncCmd(self, delete, direction) ==
    IF direction = "local_to_remote"
    THEN "rsync -avPz " \o RelLocalDir \o "/ -e " \o FakeSsh \o " "
            \o self.lxd_container_name \o ":/home/ubuntu/Documents/" \o RelRemoteDir \o "/"
            \o (IF delete THEN " --delete" ELSE "")
    ELSE "rsync -avPz -e " \o FakeSsh \o " "
            \o self.lxd_container_name \o ":/home/ubuntu/Documents/" \o RelRemoteDir \o "/ "
            \o RelLocalDir \o "/" \o (IF delete THEN " --delete" ELSE "")

\* lines 124 and 128
RsyncLogStr(self, direction) ==
    IF direction = "local_to_remote"
    THEN "Used rsync from local " \o RelLocalDir \o " to " \o self.host
            \o ":/home/ubuntu/Documents/" \o RelRemoteDir
    ELSE "Used rsync from " \o self.host \o ":/home/ubuntu/Documents/" \o RelRemoteDir
            \o " to local " \o RelLocalDir

\* lines 145-147: an exception caught by `except Exception as e`
RsyncUnexpected(exc, log, fx) ==
    Raised(exc, Append(log, Log("error", "Unexpected error occurred: " \o exc)), fx)

\* lines 142-144: FileNotFoundError is bound to `error`, and `raise e` then
\* reads a local name that has no value
RsyncNotFound(log, fx) ==
    Raised("UnboundLocalError", Append(log, Log("error", "FileNotFoundError")), fx)

\* line 140
RsyncAssert(scan, log, fx) ==
    IF scan.success
    THEN [outcome |-> "returned", value |-> "None", log |-> log \o scan.log, fx |-> fx]
    ELSE RsyncUnexpected("AssertionError", log \o scan.log, fx)

\* lines 131-140: the transfer and the scan of what it printed
RsyncTransfer(self, delete, direction, run, log0, fx0) ==
    LET log == Append(log0, Log("info", "<green>" \o RsyncLogStr(self, direction) \o "</green>"))
        fx == Append(fx0, [kind |-> "transfer", cmd |-> RsyncCmd(self, delete, direction)])
    IN CASE run.fault = "not_found" -> RsyncNotFound(log, fx0)
         [] run.fault = "nonzero" -> RsyncUnexpected("CalledProcessError", log, fx)
         [] run.fault = "undecodable" -> RsyncUnexpected("UnicodeDecodeError", log, fx)
         [] OTHER ->
              RsyncAssert(ScanTransferLines([success |-> TRUE, log |-> <<>>],
                                            SplitNewline(Unlines(run.out))),
                          log, fx)

\* lines 121-122: the directory-creation commands of a push, in their order
RsyncMkdirCmdMutantSwapped(k) ==
    IF k = 1 THEN "mkdir -p /home/ubuntu/Documents/Outputs"
    ELSE "mkdir -p /home/ubuntu/Documents/" \o RelRemoteDir

RsyncMkdirCmd(k) ==
    IF k = 1 THEN "mkdir -p /home/ubuntu/Documents/" \o RelRemoteDir
    ELSE "mkdir -p /home/ubuntu/Documents/Outputs"

\* lines 99-147
rsync(self, delete, direction, mk1, mk2, run) ==
    IF direction = "local_to_remote"
    THEN LET r1 == execute_commands(self,
                      [type |-> "str", val |-> RsyncMkdirCmd(1)],
                      FALSE, mk1)
         IN IF r1.outcome = "raised" THEN RsyncUnexpected(r1.exc, r1.log, r1.fx)
            ELSE LET r2 == execute_commands(self,
                              [type |-> "str", val |-> RsyncMkdirCmd(2)],
                              FALSE, mk2)
                 IN IF r2.outcome = "raised"
                    THEN RsyncUnexpected(r2.exc, r1.log \o r2.log, r1.fx \o r2.fx)
                    ELSE RsyncTransfer(self, delete, direction, run, r1.log \o r2.log, r1.fx \o r2.fx)
    ELSE IF direction = "remote_to_local"
    THEN RsyncTransfer(self, delete, direction, run, <<>>, <<>>)
    ELSE RsyncUnexpected("UnboundLocalError", <<>>, <<>>)

----------------------------------------------------------------------------
(* RemoteClient.clean *)

\* what the session answers to the commands of clean
CleanReplies ==
    { [fault |-> "exec_raises"],
      [fault |-> "none", err |-> <<>>, out |-> <<>>],
      [fault |-> "none", err |-> <<"ls: cannot access">>, out |-> <<>>],
      [fault |-> "none", err |-> <<>>, out |-> <<"a">>],
      [fault |-> "none", err |-> <<>>, out |-> <<"a", "b">>] }

\* line 211: the test on what the listing of a folder gave
FolderNonEmptyMutantAlways(listing) == Len(listing) >= 0

FolderNonEmpty(listing) == Len(listing) > 0

\* lines 210-212 for one folder, then the folders after it
RECURSIVE CleanFolders(_, _, _, _)
CleanFolders(self, folders, replies, acc) ==
    IF folders = <<>>
    THEN [outcome |-> "returned", value |-> "None", log |-> acc.log, fx |-> acc.fx]
    ELSE LET ls == execute_commands(self,
                      [type |-> "str", val |-> "ls ~/Documents/" \o Head(folders) \o "/"],
                      FALSE, replies[1])
         IN IF ls.outcome = "raised"
            THEN Raised(ls.exc, acc.log \o ls.log, acc.fx \o ls.fx)
            ELSE IF FolderNonEmpty(ls.value)
            THEN LET rm == execute_commands(self,
                              [type |-> "str", val |-> "rm -r ~/Documents/" \o Head(folders) \o "/*"],
                              FALSE, replies[2])
                 IN IF rm.outcome = "raised"
                    THEN Raised(rm.exc, acc.log \o ls.log \o rm.log, acc.fx \o ls.fx \o rm.fx)
                    ELSE CleanFolders(self, Tail(folders), SubSeq(replies, 3, Len(replies)),
                                      [log |-> acc.log \o ls.log \o rm.log,
                                       fx |-> acc.fx \o ls.fx \o rm.fx])
            ELSE CleanFolders(self, Tail(folders), SubSeq(replies, 3, Len(replies)),
                              [log |-> acc.log \o ls.log, fx |-> acc.fx \o ls.fx])

\* lines 208-212.  replies: the answers to ls and rm for each folder in turn
clean(self, replies) ==
    CleanFolders(self, <<"Outputs", "Uploads">>, replies, [log |-> <<>>, fx |-> <<>>])

----------------------------------------------------------------------------
(* The command line: standalone_cli.main *)

defined_tasks ==
    {"check_dirs", "rsync_to_container", "rsync_from_container", "get_remote_working_directory"}

TaskArgs == defined_tasks \cup {"deploy"}
HostnameArgs == {"lxd_doc-dev", "doc-dev", "lxd_a_lxd_b"}
IfDeleteArgs == {"delete", "keep", "maybe"}
HomeDir == "/home/u"
WorkingDirs == {"/home/u/proj", "/tmp/proj", "/opt/homebrew/proj"}

\* what `lxc info <name>` answers: the container's description, or not found
InfoReplies ==
    { [result |-> "Name: c\nStatus: RUNNING\n", error |-> ""],
      [result |-> "", error |-> "Error: Not Found\n"] }

\* the listings the command line's session may meet
CliLxcRuns == {l \in LxcRuns : l.fault = "none" => Len(l.entries) <= 1}

\* s.replace(old, new)
RECURSIVE Replace(_, _, _)
Replace(s, old, new) ==
    IF Len(s) < Len(old) \/ Len(s) = 0 THEN s
    ELSE IF SubSeq(s, 1, Len(old)) = old
         THEN new \o Replace(SubSeq(s, Len(old) + 1, Len(s)), old, new)
         ELSE SubSeq(s, 1, 1) \o Replace(SubSeq(s, 2, Len(s)), old, new)

\* lxdev.run_local_cmd: runs a local command and gives what it wrote to its
\* output and to its error stream
run_local_cmd(cmd, info) ==
    [result |-> info.result, error |-> info.error, fx |-> <<[kind |-> "local", cmd |-> cmd]>>]

\* line 62
LxdNameOf(hostname) == Replace(hostname, "lxd_", "")

\* lines 61-65
assert_we_can_extract_lxd_name_from_hostname(hostname, info) ==
    LET lxd_container_name == LxdNameOf(hostname)
        got == run_local_cmd("lxc info " \o lxd_container_name, info)
    IN IF Contains("Error: Not Found", got.result \o got.error)
       THEN Raised("AssertionError", <<>>, got.fx)
       ELSE [outcome |-> "returned", value |-> lxd_container_name, log |-> <<>>, fx |-> got.fx]

\* line 28: the test on the working directory
CwdAccepted(cwd) == Contains("home", cwd)

\* lines 32-38: the if_delete token of the two rsync tasks
DeleteChoice(task, if_delete) ==
    IF task \in {"rsync_to_container", "rsync_from_container"}
    THEN (IF if_delete = "delete" THEN [ok |-> TRUE, delete |-> TRUE]
          ELSE IF if_delete = "keep" THEN [ok |-> TRUE, delete |-> FALSE]
          ELSE [ok |-> FALSE])
    ELSE [ok |-> TRUE]

\* lxdev.RemoteClient(host = ..., lxd_container_name = ..., ...) as the
\* command line constructs it
CliRemoteClient(host, lxd_container_name) ==
    [host |-> host, lxd_container_name |-> lxd_container_name, user |-> "ubuntu",
     client |-> "None"]

\* lines 47-56: the body of the with block, one call on the client
CliBody(task) == <<[kind |-> "body", task |-> task]>>

\* lines 40-56: the with statement
CliSession(task, remote_hostname, lxd_container_name, fx0, lxc, user_config, conn) ==
    LET self == CliRemoteClient(remote_hostname, lxd_container_name)
        fx1 == Append(fx0, [kind |-> "RemoteClient", host |-> remote_hostname,
                            lxd_container_name |-> lxd_container_name])
        entered == __enter__(self, lxc, user_config, conn)
    IN IF entered.outcome = "raised"
       THEN Raised(entered.exc, entered.log, fx1 \o entered.fx)
       ELSE LET x == __exit__([self EXCEPT !.client = entered.client], "none") IN
            [outcome |-> "returned", value |-> "None", log |-> entered.log,
             fx |-> fx1 \o entered.fx \o CliBody(task)
                        \o [i \in 1..x.closed |-> [kind |-> "close"]]]

\* lines 11-58
main(task, remote_hostname, if_delete, cwd, info, lxc, user_config, conn) ==
    IF task \notin defined_tasks THEN Raised("AssertionError", <<>>, <<>>)
    ELSE IF task = "check_dirs"
    THEN [outcome |-> "returned", value |-> "None", log |-> <<>>, fx |-> <<>>]
    ELSE IF ~CwdAccepted(cwd) THEN Raised("AssertionError", <<>>, <<>>)
    ELSE LET name == assert_we_can_extract_lxd_name_from_hostname(remote_hostname, info) IN
         IF name.outcome = "raised" THEN name
         ELSE IF ~DeleteChoice(task, if_delete).ok
         THEN Raised("AssertionError", <<>>, name.fx)
         ELSE CliSession(task, remote_hostname, name.value, name.fx, lxc, user_config, conn)

----------------------------------------------------------------------------
(* The calls *)

NoCall == [op |-> "none"]

\* what a raised exception does to the caller: inside a with block it leaves
\* the body, outside it just reaches the caller
Propagate(r) ==
    IF r.outcome = "raised" /\ scope = "inside" THEN r.exc ELSE pending

\* the reply of a session that was never asked: the call failed before line 171
NotAsked == [fault |-> "not_asked"]

CallExecuteCommands ==
    /\ last = NoCall /\ pending = "none"
    /\ \E commands \in CommandArgs, ignore_failures \in BOOLEAN :
          LET asked == CombinedCmd(commands).bound /\ client = "connected" IN
          \E reply \in IF asked THEN Replies ELSE {NotAsked} :
              \E r \in {execute_commands(Self(client), commands, ignore_failures, reply)} :
              /\ last' = [op |-> "execute_commands", commands |-> commands,
                          ignore_failures |-> ignore_failures, reply |-> reply,
                          scope |-> scope, r |-> r]
              /\ pending' = Propagate(r)
    /\ prior' = "other"
    /\ UNCHANGED <<client, scope, scopes, closes>>

CallRsync ==
    /\ last = NoCall /\ pending = "none"
    /\ \E delete \in BOOLEAN, direction \in Directions,
          mk1 \in MkdirReplies, mk2 \in MkdirReplies, run \in TransferRuns :
          \E r \in {rsync(Self(client), delete, direction, mk1, mk2, run)} :
          /\ last' = [op |-> "rsync", delete |-> delete, direction |-> direction,
                      mkdirs |-> IF direction = "local_to_remote" THEN <<mk1, mk2>> ELSE <<>>,
                      run |-> run, scope |-> scope, r |-> r]
          /\ pending' = Propagate(r)
    /\ prior' = "other"
    /\ UNCHANGED <<client, scope, scopes, closes>>

CallClean ==
    /\ last = NoCall /\ pending = "none"
    /\ \E replies \in [1..4 -> CleanReplies] :
          \E r \in {clean(Self(client), replies)} :
          /\ last' = [op |-> "clean", replies |-> replies, scope |-> scope, r |-> r]
          /\ pending' = Propagate(r)
    /\ UNCHANGED <<client, scope, scopes, closes, prior>>

\* `with client:` reaches __enter__; the block is entered if it returns
Enter ==
    /\ last = NoCall /\ scope = "outside" /\ scopes < MaxScopes
    /\ \E lxc \in LxcRuns, user_config \in SshConfigs, conn \in ConnectOutcomes :
          \E r \in {__enter__(Self(client), lxc, user_config, conn)} :
          /\ last' = [op |-> "__enter__", lxc |-> lxc, user_config |-> user_config,
                      conn |-> conn, scope |-> scope, r |-> r]
          /\ client' = r.client
          /\ IF r.outcome = "returned"
             THEN scope' = "inside" /\ scopes' = scopes + 1 /\ closes' = 0
             ELSE UNCHANGED <<scope, scopes, closes>>
    /\ prior' = "other"
    /\ UNCHANGED pending

\* the with block is left, by the end of its body or by an exception, and
\* __exit__ is called; it returns None, so the exception reaches the caller
Exit ==
    /\ last = NoCall /\ scope = "inside"
    /\ LET x == __exit__(Self(client), pending) IN
          /\ client' = x.client
          /\ closes' = closes + x.closed
          /\ last' = [op |-> "__exit__", exc |-> pending, scope |-> scope,
                      r |-> IF pending # "none" /\ ~x.suppress
                            THEN Raised(pending, <<>>, <<>>)
                            ELSE [outcome |-> "returned", value |-> "None",
                                  log |-> <<>>, fx |-> <<>>]]
    /\ scope' = "outside"
    /\ pending' = "none"
    /\ prior' = "other"
    /\ UNCHANGED scopes

\* the caller takes the outcome of the call
Return ==
    /\ last # NoCall
    /\ last' = NoCall
    /\ prior' = IF last.op = "clean" /\ last.r.outcome = "returned" THEN "clean" ELSE "other"
    /\ UNCHANGED <<client, scope, pending, scopes, closes>>

Init ==
    /\ client = "None"
    /\ scope = "outside"
    /\ pending = "none"
    /\ scopes = 0
    /\ closes = 0
    /\ prior = "other"
    /\ last = NoCall

Next ==
    \/ CallExecuteCommands
    \/ CallRsync
    \/ CallClean
    \/ Enter
    \/ Exit
    \/ Return

Spec == Init /\ [][Next]_vars

\* one run of the command line
Main ==
    /\ last = NoCall
    /\ \E task \in TaskArgs, remote_hostname \in HostnameArgs, if_delete \in IfDeleteArgs,
          cwd \in WorkingDirs, info \in InfoReplies,
          lxc \in CliLxcRuns, user_config \in SshConfigs, conn \in ConnectOutcomes :
          last' = [op |-> "main", task |-> task, remote_hostname |-> remote_hostname,
                   if_delete |-> if_delete, cwd |-> cwd, info |-> info,
                   r |-> main(task, remote_hostname, if_delete, cwd, info,
                              lxc, user_config, conn)]
    /\ UNCHANGED <<client, scope, pending, scopes, closes, prior>>

NextCli ==
    \/ Main
    \/ Return

SpecCli == Init /\ [][NextCli]_vars

----------------------------------------------------------------------------
(* Properties of execute_commands *)

CountKind(fx, kinds) == Len(SelectSeq(fx, LAMBDA e : e.kind \in kinds))

\* the call of execute_commands just made ran its command and read the
\* error stream to its end
ExecClassified ==
    /\ last.op = "execute_commands"
    /\ CountKind(last.r.fx, {"exec_command"}) = 1
    /\ last.reply.fault \in {"none", "stdout_undecodable"}

HasBenignMarker(line) ==
    Contains("WARNING", line) \/ Contains("Latexmk: Run number", line)

\* C1: a batch run with ignore_failures false whose error stream holds a line
\* without benign marker does not return: execute_commands raises
\* myRemoteException carrying the error lines.
C1_RaisesOnFailedBatch ==
    (/\ ExecClassified
     /\ ~last.ignore_failures
     /\ \E i \in DOMAIN last.reply.err : ~HasBenignMarker(last.reply.err[i]))
        => /\ last.r.outcome = "raised"
           /\ last.r.exc = "myRemoteException"

\* C2: when every line of the error stream contains a benign marker (or there
\* is no line), the success flag is true at the end of the execution.
C2_AllBenignIsSuccess ==
    (/\ ExecClassified
     /\ \A i \in DOMAIN last.reply.err : HasBenignMarker(last.reply.err[i]))
        => /\ last.r.outcome = "returned"
           /\ last.r.success = TRUE

C2_Witness ==
    /\ ExecClassified
    /\ last.reply.err = <<"WARNING: x", "Latexmk: Run number 2">>
    /\ last.r.success = TRUE

\* C3: when some line of the error stream contains no benign marker, the
\* success flag is false and every such line is in the error-line collection.
C3_NonBenignIsFailure ==
    (/\ ExecClassified
     /\ \E i \in DOMAIN last.reply.err : ~HasBenignMarker(last.reply.err[i]))
        => /\ last.r.outcome = "returned"
           /\ last.r.success = FALSE
           /\ \A i \in DOMAIN last.reply.err :
                 ~HasBenignMarker(last.reply.err[i])
                     => last.reply.err[i] \in Range(last.r.error_lines)

C3_Witness ==
    /\ ExecClassified
    /\ last.reply.err = <<"WARNING: x", "fatal">>
    /\ last.r.success = FALSE
    /\ "fatal" \in Range(last.r.error_lines)

----------------------------------------------------------------------------
(* Properties of rsync *)

\* the call of rsync just made, push or pull, ran the transfer tool
RsyncRan ==
    /\ last.op = "rsync"
    /\ last.direction \in {"local_to_remote", "remote_to_local"}
    /\ CountKind(last.r.fx, {"transfer"}) = 1

\* the lines the transfer tool printed
PrintedLines == IF "out" \in DOMAIN last.run THEN last.run.out ELSE <<>>

HasTransferErrorMarker(line) == Contains("rsync error", line) \/ Contains("failed", line)

LoggedThenRaised(exc) ==
    /\ last.r.outcome = "raised"
    /\ last.r.exc = exc
    /\ \A i \in DOMAIN PrintedLines :
          HasTransferErrorMarker(PrintedLines[i])
              => \E k \in 1..(Len(last.r.log) - 1) :
                    last.r.log[k] = Log("error", "rsync failed: " \o PrintedLines[i])
    /\ last.r.log[Len(last.r.log)].level = "error"

\* C4 as stated: whenever a line the transfer tool printed contains a
\* transfer-error or "failed" marker, rsync logs each such line as an error
\* and then raises the synchronization failure (here for the calls made
\* inside the with block).
C4_MarkerAlwaysRaisesSyncFailure ==
    (/\ RsyncRan
     /\ last.scope = "inside"
     /\ "out" \in DOMAIN last.run
     /\ \E i \in DOMAIN PrintedLines : HasTransferErrorMarker(PrintedLines[i]))
        => LoggedThenRaised("AssertionError")

\* C4 as amended: when the transfer tool exits with status zero, its output
\* decodes and a line of it contains "rsync error" or "failed", rsync logs
\* each such line as an error and then raises the failed assertion.
C4_MarkerRaisesSyncFailure ==
    (/\ RsyncRan
     /\ last.run.fault = "none"
     /\ \E i \in DOMAIN PrintedLines : HasTransferErrorMarker(PrintedLines[i]))
        => LoggedThenRaised("AssertionError")

C4_Witness ==
    /\ RsyncRan
    /\ last.run.fault = "none"
    /\ last.run.out = <<"sent 9 bytes", "open failed">>
    /\ last.r.outcome = "raised"
    /\ last.r.exc = "AssertionError"

HasErrorOrFailed(line) == Contains("error", line) \/ Contains("failed", line)

\* C5 as stated: whenever no line the transfer tool printed contains an
\* "error" or "failed" marker, rsync returns without raising (here for the
\* calls made inside the with block).
C5_CleanOutputAlwaysReturns ==
    (/\ RsyncRan
     /\ last.scope = "inside"
     /\ "out" \in DOMAIN last.run
     /\ \A i \in DOMAIN PrintedLines : ~HasErrorOrFailed(PrintedLines[i]))
        => last.r.outcome = "returned"

\* C5 as amended: when the transfer tool exits with status zero, its output
\* decodes and no line of it contains an "error" or "failed" marker, rsync
\* returns without raising.
C5_CleanOutputReturns ==
    (/\ RsyncRan
     /\ last.run.fault = "none"
     /\ \A i \in DOMAIN PrintedLines : ~HasErrorOrFailed(PrintedLines[i]))
        => last.r.outcome = "returned"

C5_Witness ==
    /\ RsyncRan
    /\ last.run.fault = "none"
    /\ last.run.out = <<"sent 9 bytes", "sent 9 bytes">>
    /\ last.delete
    /\ last.r.outcome = "returned"

----------------------------------------------------------------------------
(* Properties of the session *)

\* C6: a with block that was entered is closed exactly once when it is left,
\* whether its body ended or raised, and an exception of the body reaches the
\* caller after the close.
C6_ClosedOnceOnExit ==
    /\ scope = "inside" => closes = 0
    /\ (scope = "outside" /\ scopes > 0) => closes = 1
    /\ last.op = "__exit__"
          => /\ client = "closed"
             /\ closes = 1
             /\ last.exc # "none" => (last.r.outcome = "raised" /\ last.r.exc = last.exc)
             /\ last.exc = "none" => last.r.outcome = "returned"

C6_Witness ==
    /\ last.op = "__exit__"
    /\ last.exc = "AssertionError"
    /\ closes = 1
    /\ scopes = 2

\* C7: a call of execute_commands, rsync or clean made outside the with block
\* starts no remote command and no transfer, and fails.
C7_NothingRunsOutsideSession ==
    (last.op \in {"execute_commands", "rsync", "clean"} /\ last.scope = "outside")
        => /\ CountKind(last.r.fx, {"exec_command", "transfer"}) = 0
           /\ last.r.outcome = "raised"

Before(fx, first, then) ==
    \A i, j \in DOMAIN fx : (fx[i].kind \in first /\ fx[j].kind \in then) => i < j

\* C8: in __enter__ the listing, every start and the settle wait come before
\* the connection attempt, and there is no connection attempt when
\* ensure_container_is_on raised.
C8_WarmUpBeforeConnect ==
    last.op = "__enter__"
        => /\ Before(last.r.fx, {"lxc_list", "lxc_start", "sleep"}, {"SSHClient", "ProxyCommand", "connect"})
           /\ last.lxc.fault = "none" => CountKind(last.r.fx, {"connect"}) = 1
           /\ last.lxc.fault # "none"
                 => /\ CountKind(last.r.fx, {"SSHClient", "ProxyCommand", "connect"}) = 0
                    /\ last.r.outcome = "raised"

C8_Witness ==
    /\ last.op = "__enter__"
    /\ CountKind(last.r.fx, {"lxc_start"}) = 1
    /\ CountKind(last.r.fx, {"sleep"}) = SettleCount
    /\ last.r.fx[Len(last.r.fx)].kind = "connect"

StoppedEntriesOf(name, entries) ==
    Len(SelectSeq(entries, LAMBDA e : e.name = name /\ e.state = "STOPPED"))

\* C9: ensure_container_is_on issues one start command for each entry of the
\* listing that is the named container in state STOPPED, and no other.
C9_OneStartPerStoppedEntry ==
    (last.op = "__enter__" /\ last.lxc.fault = "none")
        => /\ CountKind(last.r.fx, {"lxc_start"})
                  = StoppedEntriesOf(target.lxd_container_name, last.lxc.entries)
           /\ \A i \in DOMAIN last.r.fx :
                 last.r.fx[i].kind = "lxc_start"
                     => last.r.fx[i].name = target.lxd_container_name

----------------------------------------------------------------------------
(* Properties of the command line *)

StartsWith(s, prefix) == Len(s) >= Len(prefix) /\ SubSeq(s, 1, Len(prefix)) = prefix

InHomeTree(cwd) == cwd = HomeDir \/ StartsWith(cwd, HomeDir \o "/")

RemoteTasks == {"rsync_to_container", "rsync_from_container", "get_remote_working_directory"}

\* the precondition violations of a run of the command line
PreconditionViolated ==
    \/ last.task \notin defined_tasks
    \/ /\ last.task \in RemoteTasks
       /\ \/ ~InHomeTree(last.cwd)
          \/ Contains("Error: Not Found", last.info.result \o last.info.error)
          \/ /\ last.task \in {"rsync_to_container", "rsync_from_container"}
             /\ last.if_delete \notin {"delete", "keep"}

\* C10: a run of the command line with an unknown task, a working directory
\* outside the home tree, a container that is not found or a bad if_delete
\* token fails before RemoteClient is entered: no container is listed or
\* started and no connection is attempted.
C10_FailsFastBeforeSession ==
    (last.op = "main" /\ PreconditionViolated)
        => /\ last.r.outcome = "raised"
           /\ CountKind(last.r.fx, {"lxc_list", "lxc_start", "sleep",
                                    "SSHClient", "ProxyCommand", "connect"}) = 0

----------------------------------------------------------------------------
(* Properties of clean and of the order of the remote commands *)

\* the remote commands a call started, in their order
RECURSIVE ExecCmds(_)
ExecCmds(fx) ==
    IF fx = <<>> THEN <<>>
    ELSE IF Head(fx).kind = "exec_command"
         THEN <<Head(fx).cmd>> \o ExecCmds(Tail(fx))
         ELSE ExecCmds(Tail(fx))

CleanInSession == last.op = "clean" /\ last.scope = "inside"

ListsNothing(reply) == reply.fault = "none" /\ reply.out = <<>>

\* C11: the second of two cleans in succession, finding both scratch
\* directories empty, issues the two listing commands and no removal command.
C11_CleanTargetOnlyListed ==
    (/\ CleanInSession
     /\ prior = "clean"
     /\ ListsNothing(last.replies[1])
     /\ ListsNothing(last.replies[3]))
        => /\ last.r.outcome = "returned"
           /\ ExecCmds(last.r.fx) = <<"ls ~/Documents/Outputs/", "ls ~/Documents/Uploads/">>

C11_Witness ==
    /\ CleanInSession
    /\ prior = "clean"
    /\ last.replies[1] = [fault |-> "none", err |-> <<>>, out |-> <<>>]
    /\ last.replies[3] = [fault |-> "none", err |-> <<>>, out |-> <<>>]
    /\ Len(ExecCmds(last.r.fx)) = 2

ScratchFolder(k) == IF k = 1 THEN "Outputs" ELSE "Uploads"

MissingDirectory(reply) ==
    reply.fault = "none" /\ reply.err # <<>> /\ reply.out = <<>>

\* C12: when the listing of a scratch directory writes an error line and no
\* output, clean does not raise, issues no removal command for that
\* directory and still lists the other one.
C12_MissingDirectoryTolerated ==
    \A k \in {1, 2} :
        (/\ CleanInSession
         /\ \A i \in 1..4 : last.replies[i].fault = "none"
         /\ MissingDirectory(last.replies[2 * k - 1]))
            => /\ last.r.outcome = "returned"
               /\ ("rm -r ~/Documents/" \o ScratchFolder(k) \o "/*") \notin Range(ExecCmds(last.r.fx))
               /\ \A j \in {1, 2} :
                     ("ls ~/Documents/" \o ScratchFolder(j) \o "/") \in Range(ExecCmds(last.r.fx))

C12_Witness ==
    /\ CleanInSession
    /\ MissingDirectory(last.replies[1])
    /\ last.replies[3] = [fault |-> "none", err |-> <<>>, out |-> <<"a">>]
    /\ last.replies[4].fault = "none"
    /\ ExecCmds(last.r.fx)
          = <<"ls ~/Documents/Outputs/", "ls ~/Documents/Uploads/", "rm -r ~/Documents/Uploads/*">>

\* what a call did outside the process, by kind
Kinds(fx) == [i \in DOMAIN fx |-> fx[i].kind]

\* C13: a push creates the sync target directory and then the Outputs
\* directory, each command having ended, before the transfer starts; a pull
\* runs no remote command.
C13_DirectoriesBeforeTransfer ==
    /\ (RsyncRan /\ last.direction = "local_to_remote")
          => /\ ExecCmds(last.r.fx)
                    = <<"mkdir -p /home/ubuntu/Documents/invalid_dir",
                        "mkdir -p /home/ubuntu/Documents/Outputs">>
             /\ Kinds(last.r.fx)
                    = <<"exec_command", "recv_exit_status", "recv_exit_status",
                        "exec_command", "recv_exit_status", "recv_exit_status", "transfer">>
    /\ (last.op = "rsync" /\ last.direction = "remote_to_local")
          => ExecCmds(last.r.fx) = <<>>

C13_Witness ==
    /\ RsyncRan
    /\ last.direction = "local_to_remote"
    /\ last.r.outcome = "returned"
    /\ Len(ExecCmds(last.r.fx)) = 2


----------------------------------------------------------------------------
(* Properties of the command sent and of the lines returned *)

\* the commands a shell runs for a line chained with &&, in their order
RECURSIVE ChainParts(_, _, _)
ChainParts(line, from, i) ==
    IF i + 3 > Len(line) THEN <<SubSeq(line, from, Len(line))>>
    ELSE IF SubSeq(line, i, i + 3) = " && "
         THEN <<SubSeq(line, from, i - 1)>> \o ChainParts(line, i + 4, i + 4)
         ELSE ChainParts(line, from, i + 1)

\* which commands of a chain run when ok[k] says whether command k succeeds:
\* the shell stops at the first command that fails
ChainRuns(parts, ok) == {k \in 1..Len(parts) : \A j \in 1..(k - 1) : ok[j]}

\* the call of execute_commands just made was accepted by the session
ExecSent ==
    /\ last.op = "execute_commands"
    /\ last.scope = "inside"
    /\ last.commands.type \in {"str", "list"}
    /\ last.reply.fault # "exec_raises"

\* C14: a call of execute_commands in an open session sends exactly one
\* command; for a string it is the string itself, for a list of n >= 1
\* commands it is the list chained with && in the list's order, so that
\* command k runs only if commands 1..k-1 succeeded.
C14_OneChainedCommand ==
    ExecSent =>
        /\ CountKind(last.r.fx, {"exec_command"}) = 1
        /\ last.commands.type = "str" => ExecCmds(last.r.fx) = <<last.commands.val>>
        /\ (last.commands.type = "list" /\ Len(last.commands.val) >= 1) =>
              LET parts == ChainParts(ExecCmds(last.r.fx)[1], 1, 1) IN
              /\ parts = last.commands.val
              /\ \A ok \in [1..Len(parts) -> BOOLEAN] :
                    ChainRuns(parts, ok)
                        = {k \in 1..Len(last.commands.val) : \A j \in 1..(k - 1) : ok[j]}

C14_Witness ==
    /\ ExecSent
    /\ last.commands = [type |-> "list", val |-> <<"make", "ls">>]
    /\ last.r.outcome = "returned"
    /\ ExecCmds(last.r.fx) = <<"make && ls">>

\* C15: whatever the error stream held and whatever ignore_failures is, a
\* call that read both streams returns the lines of the output stream,
\* without their newlines and in their order, and no line of the error stream.
C15_ReturnsOutputLines ==
    (ExecSent /\ last.reply.fault = "none") =>
        /\ last.r.outcome = "returned"
        /\ last.r.value = last.reply.out
        /\ Range(last.r.value) \cap Range(last.reply.err) = {}

C15_Witness ==
    /\ ExecSent /\ last.reply.fault = "none"
    /\ ~last.ignore_failures
    /\ ~last.r.success
    /\ last.reply.err = <<"fatal">>
    /\ last.r.value = <<"b", "a">>

\* C18: when the output stream does not decode, the call logs the failure
\* as an error and returns the lines it had captured, which are none.
C18_DecodeFailureIsLogged ==
    (ExecSent /\ last.reply.fault = "stdout_undecodable") =>
        /\ last.r.outcome = "returned"
        /\ last.r.value = <<>>
        /\ Log("error", "Failed to read from stdout.readlines() , probably due to non-utf8 encoding")
              \in Range(last.r.log)

C18_Witness ==
    /\ ExecSent /\ last.reply.fault = "stdout_undecodable"
    /\ last.r.outcome = "returned"
    /\ last.r.value = <<>>
    /\ CountKind(last.r.fx, {"exec_command"}) = 1


----------------------------------------------------------------------------
(* Properties of the settle wait *)

\* the events of the given kinds stand next to one another
Contiguous(fx, kinds) ==
    \A i, j \in DOMAIN fx :
        (i < j /\ fx[i].kind \in kinds /\ fx[j].kind \in kinds)
            => \A k \in i..j : fx[k].kind \in kinds

\* C17: a call of ensure_container_is_on that read the listing sleeps for
\* the five one-second steps of the settle wait when it issued at least one
\* start and does not sleep when it issued none; the steps form one wait,
\* announced once, after every start and before anything done after the return.
C17_SettleIffStarted ==
    (last.op = "__enter__" /\ last.lxc.fault = "none") =>
        LET fx == last.r.fx
            started == CountKind(fx, {"lxc_start"}) >= 1
            announced == Len(SelectSeq(last.r.log, LAMBDA l : l = Log("info", "waiting...")))
        IN /\ started => (CountKind(fx, {"sleep"}) = 5 /\ announced = 1)
           /\ ~started => (CountKind(fx, {"sleep"}) = 0 /\ announced = 0)
           /\ Contiguous(fx, {"sleep"})
           /\ Before(fx, {"lxc_start"}, {"sleep"})
           /\ Before(fx, {"sleep"}, {"SSHClient", "ProxyCommand", "connect"})

C17_Witness ==
    /\ last.op = "__enter__"
    /\ last.lxc.fault = "none"
    /\ CountKind(last.r.fx, {"lxc_start"}) = 2
    /\ CountKind(last.r.fx, {"sleep"}) = 5
    /\ last.r.outcome = "returned"


----------------------------------------------------------------------------
(* Properties of the name derived from the hostname *)

\* the hostname without its leading "lxd_", when it has one
WithoutLeadingPrefix(hostname) ==
    IF StartsWith(hostname, "lxd_") THEN SubSeq(hostname, 5, Len(hostname)) ELSE hostname

\* the container names a run of the command line used: the one it asked
\* `lxc info` about and the one it gave to RemoteClient
DerivedNames(fx) ==
    {Replace(fx[i].cmd, "lxc info ", "") : i \in {j \in DOMAIN fx : fx[j].kind = "local"}}
        \cup {fx[i].lxd_container_name : i \in {j \in DOMAIN fx : fx[j].kind = "RemoteClient"}}

\* C16: the container name a run of the command line derives from the
\* hostname is the hostname with a leading "lxd_" stripped and the rest of
\* it unchanged.
C16_LeadingPrefixStripped ==
    last.op = "main" => DerivedNames(last.r.fx) \subseteq {WithoutLeadingPrefix(last.remote_hostname)}


----------------------------------------------------------------------------
(* Properties of the failures of __enter__ and of rsync *)

\* C19: when __enter__ raises, the error reaches the caller and every
\* handle the call created (the client, the proxy command) was closed by it.
C19_FailedOpenLeavesNothingOpen ==
    (last.op = "__enter__" /\ last.r.outcome = "raised") =>
        /\ last.r.exc = (IF last.lxc.fault = "not_found" THEN "FileNotFoundError"
                         ELSE IF last.lxc.fault = "nonzero" THEN "CalledProcessError"
                         ELSE last.conn)
        /\ CountKind(last.r.fx, {"close"}) >= CountKind(last.r.fx, {"SSHClient", "ProxyCommand"})

\* the call of rsync just made came to the point of running the transfer tool
ReachedTransfer ==
    /\ last.op = "rsync"
    /\ \/ last.direction = "remote_to_local"
       \/ /\ last.direction = "local_to_remote"
          /\ last.scope = "inside"
          /\ \A k \in {1, 2} : last.mkdirs[k].fault # "exec_raises"

\* the error that arises in the try block of the call of rsync just made
ArisingError ==
    IF last.direction \notin {"local_to_remote", "remote_to_local"} THEN "UnboundLocalError"
    ELSE CASE last.run.fault = "not_found" -> "FileNotFoundError"
           [] last.run.fault = "nonzero" -> "CalledProcessError"
           [] last.run.fault = "undecodable" -> "UnicodeDecodeError"
           [] OTHER -> "AssertionError"

\* C20: an error that arises in rsync from an unrecognized direction or from
\* the transfer (tool not found, non-zero exit status, the failure
\* assertion) is logged as an error, and the caller gets that same error.
C20_SameErrorReachesCaller ==
    (/\ last.op = "rsync"
     /\ last.r.outcome = "raised"
     /\ ReachedTransfer \/ last.direction \notin {"local_to_remote", "remote_to_local"})
        => /\ last.r.exc = ArisingError
           /\ last.r.log[Len(last.r.log)].level = "error"

=============================================================================
